---- MODULE Spec2Model ----
(***************************************************************************)
(* Shim-current waveform sequencer of ge3t_shim_tool: the schedule         *)
(* compiler, the playback engine (setDACVal), the header parser            *)
(* (read_ctrl_string), the streamed body load (read_float_dump) and the    *)
(* Accept / Header / Body protocol of loop().                              *)
(*                                                                         *)
(* Units: currents are integers in mA, voltages in 0.1 mV, gains in mA/V.  *)
(* Serial bytes and characters are their byte values (0..255).             *)
(***************************************************************************)
EXTENDS Integers, Sequences, FiniteSets, TLC

(***************************************************************************)
(* Program constants                                                       *)
(***************************************************************************)
maxBlocks == 9
NUM_B == 1
NUM_C == 8
StoreFloats == 256
ctrlBuffer_length == 100
DefaultChannels == 8
DefaultGain == -1600
NominalGain == -1620

\* characters of the protocol, as byte values
CH_NUL == 0
CH_START == 1
CH_BAR == 124
CH_c == 99
CH_b == 98
CH_l == 108
CH_r == 114
CH_Z == 90
CH_T == 84
CH_C == 67
CH_D == 68
CH_I == 73
CH_A == 65
CH_S == 83
CH_M == 77
CH_X == 88
CH_0 == 48

MODE_ACCEPT == "ACCEPT"
MODE_HEADER == "HEADER"
MODE_BODY == "BODY"

(***************************************************************************)
(* Bounds of the model                                                     *)
(***************************************************************************)
\* schedule specification: block counts, lengths and repetitions drawn
MaxBlk == 2
MaxLen == 2
MaxRep == 3
\* playback steps followed from a zeroed counter
MaxSteps == 10
\* configuration loads (start bytes) followed
MaxLoads == 1
MaxCmds == 3

\* milliseconds the clock advances after setup()
MaxTicks == 2

\* millis() at the end of setup(): its delays add up to 1200 ms
BootMillis == 1200

LastMillis == BootMillis + MaxTicks

BlockIdx == 0 .. (maxBlocks - 1)
ChanIdx == 0 .. (NUM_B * NUM_C - 1)
StoreBytes == 0 .. (4 * StoreFloats - 1)

VARIABLES
  mode,               \* read_mode mode
  pc,                 \* position of the main program
  rx,                 \* bytes received on the serial link, not yet read
  ctrlBuffer,         \* header text as read by readBytesUntil
  wi,                 \* read_ctrl_string: index of its next write to a global
  counter,            \* volatile int counter
  channels, blocks, lengths, reps,
  block_transitions, block_base,
  coefStore,          \* the 4 * 256 bytes of float coefStore[256]
  rdTotal, rdCount,   \* Serial.readBytes: bytes asked for, bytes stored
  gain, zeroPoint,    \* calibration of each channel (mA/V, 0.1 mV)
  dac,                \* code last written to each configured channel
  played,             \* blkIdx, repIdx of the last setDACVal
  nsteps,             \* playback steps since the counter was last 0, or
                      \* -1 once the schedule was rewritten in between
  trigger,            \* whether the trigger interrupt is attached
  sentHdr,            \* host: the header text it sent last
  loads,              \* start bytes accepted so far
  prevSched,          \* the schedule when the last start byte was read
  prevStore,          \* coefStore when the last start byte was read
  calibrationStatus,  \* bool calibrationStatus[NUM_B][NUM_C]
  hw,                 \* the amplifier of each channel: its true gain
                      \* (mA/V), offset (0.1 mV) and ripple (0.5 mA)
  conv,               \* what the build makes of a conversion to uint16_t
                      \* that C leaves undefined
  calLog,             \* what the calibrations of the last 'C' or 'D' command
                      \* printed: the channel and the failure message, in order
  zeroRuns,           \* zero_all runs since anything else last wrote an
                      \* output or the calibration data (counted up to 2)
  cmds,               \* host: bytes it has sent of its budget of commands
  stk,                \* blkIdx, repIdx of a setDACVal the main loop is in
  sentBody,           \* host: body bytes it has sent for this load
  bncOut,             \* hardware.h: whether the build drives the sync output
  outHigh, tIrupt,    \* volatile bool outHigh; volatile long tIrupt
  now,                \* millis()
  bncLog,             \* the levels the last setDACVal wrote to bncPin
  layout,             \* where the build's linker put the four arrays
  spill,              \* what was stored past the end of an array, in memory
                      \* that belongs to none of the four
  hiWrite             \* the highest array index read_ctrl_string has written

vars == << mode, pc, rx, ctrlBuffer, wi, counter, channels, blocks, lengths,
           reps, block_transitions, block_base, coefStore, rdTotal, rdCount,
           gain, zeroPoint, dac, played, nsteps, trigger, sentHdr, loads,
           prevSched, prevStore, calibrationStatus, hw, conv,
           calLog, zeroRuns, cmds, stk, sentBody, bncOut, outHigh, tIrupt,
           now, bncLog, layout, spill, hiWrite >>

syncVars == << bncOut, outHigh, tIrupt, now, bncLog >>

memVars == << layout, spill, hiWrite >>

schedVars == << channels, blocks, lengths, reps, block_transitions, block_base >>

\* the schedule as one value
SchedRec ==
  [channels |-> channels, blocks |-> blocks, lengths |-> lengths,
   reps |-> reps, block_transitions |-> block_transitions,
   block_base |-> block_base]

histVars == << sentHdr, loads, prevSched, prevStore, cmds >>

calVars == << calibrationStatus, hw, conv, calLog >>

SetMax(S) == CHOOSE x \in S : \A y \in S : y <= x

\* C's % : the result has the sign of the dividend (b # 0)
CRem(a, b) ==
  LET ab == IF b < 0 THEN -b ELSE b
  IN IF a >= 0 THEN a % ab ELSE -((-a) % ab)

\* C's / : truncation toward zero (b # 0)
CDiv(a, b) ==
  LET aa == IF a < 0 THEN -a ELSE a
      ab == IF b < 0 THEN -b ELSE b
      q == aa \div ab
  IN IF (a < 0) = (b < 0) THEN q ELSE -q

(***************************************************************************)
(* Schedule compiler: compute_transitions_base (and the same loops at the  *)
(* end of read_ctrl_string)                                                *)
(***************************************************************************)
\* mutant: the thresholds are not accumulated
CumTransition_perBlock(len, rep, i) == rep[i] * len[i]

RECURSIVE CumTransition(_, _, _)
CumTransition(len, rep, i) ==
  IF i = 0 THEN rep[0] * len[0]
  ELSE CumTransition(len, rep, i - 1) + rep[i] * len[i]

RECURSIVE CumBase(_, _)
CumBase(len, i) ==
  IF i = 0 THEN len[0] ELSE CumBase(len, i - 1) + len[i]

\* entry 0 is always written; entries 1 .. blocks-1 by the loop
TransitionsOf(blk, len, rep, old) ==
  [i \in BlockIdx |->
     IF i = 0 \/ i < blk THEN CumTransition(len, rep, i) ELSE old[i]]

BaseOf(blk, len, old) ==
  [i \in BlockIdx |-> IF i = 0 \/ i < blk THEN CumBase(len, i) ELSE old[i]]

compute_transitions_base ==
  /\ block_transitions' = TransitionsOf(blocks, lengths, reps, block_transitions)
  /\ block_base' = BaseOf(blocks, lengths, block_base)

(***************************************************************************)
(* Playback: the resolution of a counter value                             *)
(***************************************************************************)
\* mutant: a counter equal to a threshold stays in the block that ends there
computeBlockIdx_late(iter) ==
  LET hit == {i \in 0 .. (blocks - 1) : iter > block_transitions[i]}
      blkIdx == IF hit = {} THEN 0 ELSE SetMax(hit) + 1
  IN IF blkIdx >= blocks THEN -1 ELSE blkIdx

computeBlockIdx(iter) ==
  LET hit == {i \in 0 .. (blocks - 1) : iter >= block_transitions[i]}
      blkIdx == IF hit = {} THEN 0 ELSE SetMax(hit) + 1
  IN IF blkIdx >= blocks THEN -1 ELSE blkIdx

\* mutant: the block's first counter value is not subtracted
computeRepIdx_noBase(iter, blkIdx) ==
  IF lengths[blkIdx] = 0 THEN iter ELSE CRem(iter, lengths[blkIdx])

\* With lengths[blkIdx] = 0 the division either traps (TriggerFault) or,
\* the trap being disabled, yields quotient 0 and so the remainder iter - base
computeRepIdx(iter, blkIdx) ==
  LET base == IF blkIdx >= 1 THEN block_transitions[blkIdx - 1] ELSE 0
  IN IF lengths[blkIdx] = 0 THEN iter - base
     ELSE CRem(iter - base, lengths[blkIdx])

(***************************************************************************)
(* Conversion layer                                                        *)
(***************************************************************************)
\* a value outside uint16_t has no defined conversion: the build either
\* reduces it modulo 2^16 or saturates it
ConvOutcomes == {"wrap", "saturate"}

DacCodes(raw) ==
  IF raw \in 0 .. 65535 THEN {raw}
  ELSE IF conv = "wrap" THEN {raw % 65536}
  ELSE {IF raw < 0 THEN 0 ELSE 65535}

\* uint16_t(65535.0 * x / 5.0), x in 0.1 mV
CodeOfVolts(x) == DacCodes(CDiv(13107 * x, 10000))

\* the conversion of a NaN or an infinity
UndefCode == IF conv = "wrap" THEN 0 ELSE 65535

\* uint16_t(65535.0 * (current / g + 2.5 - zp) / 5.0); with g = 0 the
\* quotient is a NaN or an infinity
CodeOfCurrent(current, g, zp) ==
  IF g = 0 THEN {UndefCode}
  ELSE CodeOfVolts(CDiv(10000 * current, g) + 25000 - zp)

computeDacVal_V(voltage, ch) == CodeOfVolts(voltage - zeroPoint[ch])

computeDacVal_I(current, ch) == CodeOfCurrent(current, gain[ch], zeroPoint[ch])

\* computeOutI(dacVal) = (dacVal * 4.096 / 4096 - 1.25) / 10 / 0.2 A,
\* in units of 0.5 mA
computeOutI(adcVal) == adcVal - 1250

(***************************************************************************)
(* Coefficient store                                                       *)
(***************************************************************************)
\* the little-endian IEEE-754 bytes of the currents the host sends
FloatBytes(mA) ==
  CASE mA = 0 -> << 0, 0, 0, 0 >>
    [] mA = 1000 -> << 0, 0, 128, 63 >>
    [] mA = -1000 -> << 0, 0, 128, 191 >>
    [] mA = 500 -> << 0, 0, 0, 63 >>
    [] mA = -500 -> << 0, 0, 0, 191 >>

\* currents a read of memory that is not a loaded float may yield
AnyCurrent == {-1000, 0, 1000}

\* the float a cell of four bytes holds, as the set of currents it may read as
FloatOf(b0, b1, b2, b3) ==
  CASE b0 = 0 /\ b1 = 0 /\ b2 = 0 /\ b3 = 0 -> {0}
    [] b0 = 0 /\ b1 = 0 /\ b2 = 128 /\ b3 = 0 -> {0}     \* 1.2e-38
    [] b0 = 0 /\ b1 = 0 /\ b2 = 128 /\ b3 = 63 -> {1000}
    [] b0 = 0 /\ b1 = 0 /\ b2 = 128 /\ b3 = 191 -> {-1000}
    [] b0 = 0 /\ b1 = 0 /\ b2 = 0 /\ b3 = 63 -> {500}
    [] b0 = 0 /\ b1 = 0 /\ b2 = 0 /\ b3 = 191 -> {-500}
    [] OTHER -> AnyCurrent

\* float coefStore[256] = { identity pattern of 16 rows of 16 }
DefaultFloat(idx) == IF idx \div 16 = idx % 16 THEN 1000 ELSE 0

DefaultStore ==
  [p \in StoreBytes |-> FloatBytes(DefaultFloat(p \div 4))[(p % 4) + 1]]

\* mutant: the rows of the blocks before blkIdx are not skipped
coefIdx_noBase(chanIdx, blkIdx, repIdx) == channels * repIdx + chanIdx

\* index computed by coefStoreAsMat
coefIdx(chanIdx, blkIdx, repIdx) ==
  LET base == IF blkIdx >= 1 THEN block_base[blkIdx - 1] ELSE 0
  IN channels * (base + repIdx) + chanIdx

\* coefStore[idx], as the set of currents the read may yield
coefStoreAsMat(chanIdx, blkIdx, repIdx) ==
  LET idx == coefIdx(chanIdx, blkIdx, repIdx)
  IN IF idx \in 0 .. (StoreFloats - 1)
     THEN FloatOf(coefStore[4 * idx], coefStore[4 * idx + 1],
                  coefStore[4 * idx + 2], coefStore[4 * idx + 3])
     ELSE AnyCurrent

(***************************************************************************)
(* Playback engine                                                         *)
(***************************************************************************)
\* codes update_outputs may write to the i-th configured channel
OutputCodes(i, blkIdx, repIdx) ==
  UNION {computeDacVal_I(cur, i) : cur \in coefStoreAsMat(i, blkIdx, repIdx)}

\* the n-th smallest element of a finite set of integers (n from 0)
RECURSIVE Nth(_, _)
Nth(S, n) ==
  LET m == CHOOSE x \in S : \A y \in S : x <= y
  IN IF n = 0 THEN m ELSE Nth(S \ {m}, n - 1)

\* one function of the per-channel sets F: where a write has several
\* possible codes, every channel resolves them the same way (u)
Resolutions(F) ==
  LET width == SetMax({Cardinality(F[i]) : i \in DOMAIN F})
  IN {[i \in DOMAIN F |-> Nth(F[i], u % Cardinality(F[i]))] :
        u \in 0 .. (width - 1)}

\* channels_used holds every channel of board 0: channel_order[i] = i,
\* board_order[i] = 0, and no entry is -1
update_outputs(blkIdx, repIdx) ==
  dac' \in Resolutions([i \in ChanIdx |-> OutputCodes(i, blkIdx, repIdx)])

\* the (block, row) pair setDACVal resolves for a counter value, and the
\* counter value it resolves against
\* mutant: the counter is not wrapped to 0
ResolvedCounter_noWrap(c) == c

ResolvedCounter(c) == IF computeBlockIdx(c) = -1 THEN 0 ELSE c

ResolvedBlk(c) == IF computeBlockIdx(c) = -1 THEN 0 ELSE computeBlockIdx(c)

ResolvedRep(c) ==
  IF computeBlockIdx(c) = -1 THEN 0 ELSE computeRepIdx(c, computeBlockIdx(c))

\* setDACVal, the optional BNC output: bncPin is raised unless it is high
\* already or millis() is still tIrupt, and lowered when the second
\* millis() is later than tIrupt (tnow > tIrupt + .013, on integers)
bncSegment ==
  IF ~bncOut THEN UNCHANGED syncVars
  ELSE \E t2 \in {now, now + 1} \cap (0 .. LastMillis) :
         LET rise == now > tIrupt /\ ~outHigh
             high1 == outHigh \/ rise
             tI1 == IF rise THEN now ELSE tIrupt
             fall == t2 > tI1 /\ high1
         IN /\ outHigh' = (high1 /\ ~fall)
            /\ tIrupt' = IF fall THEN t2 ELSE tI1
            /\ now' = t2
            /\ bncLog' = (IF rise THEN << "HIGH" >> ELSE << >>)
                            \o (IF fall THEN << "LOW" >> ELSE << >>)
            /\ UNCHANGED bncOut

\* setDACVal: one playback step (the trigger's interrupt handler)
setDACVal ==
  /\ update_outputs(ResolvedBlk(counter), ResolvedRep(counter))
  /\ played' = [blk |-> ResolvedBlk(counter), rep |-> ResolvedRep(counter)]
  /\ counter' = ResolvedCounter(counter) + 1
  /\ nsteps' = IF nsteps = -1 THEN -1 ELSE nsteps + 1
  /\ zeroRuns' = 0

(***************************************************************************)
(* Utility: zero_all                                                       *)
(***************************************************************************)
\* mutant: the first channel is not written
zero_all_butFirst ==
  dac' \in Resolutions([i \in ChanIdx |->
                          IF i = 0 THEN {dac[0]} ELSE computeDacVal_I(0, i)])

zero_all ==
  dac' \in Resolutions([i \in ChanIdx |-> computeDacVal_I(0, i)])

(***************************************************************************)
(* The amplifiers and their feedback                                       *)
(***************************************************************************)
NominalAmp == [gain |-> NominalGain, off |-> 0, ripple |-> 0]

\* amplifiers a channel may have: nominal; with an offset of 15 mV; of gain
\* -1.8 A/V with an offset of -10 mV; with a flat feedback; of gain -1.0 A/V;
\* of gain -1.12 A/V; with a ripple of 5 mA on its feedback
Amplifiers ==
  { NominalAmp,
    [gain |-> NominalGain, off |-> 150, ripple |-> 0],
    [gain |-> -1800, off |-> -100, ripple |-> 0],
    [gain |-> 0, off |-> 0, ripple |-> 0],
    [gain |-> -1000, off |-> 0, ripple |-> 0],
    [gain |-> -1120, off |-> 0, ripple |-> 0],
    [gain |-> NominalGain, off |-> 0, ripple |-> 10] }

\* the voltage (0.1 mV) a 16-bit code puts on the 5 V output
VoltsOfCode(code) == (code * 50000) \div 65535

\* a / b rounded to the nearest integer, b > 0
RoundDiv(a, b) == (2 * a + b) \div (2 * b)

Clamp(x, lo, hi) == IF x < lo THEN lo ELSE IF x > hi THEN hi ELSE x

\* LTC1863ReadSlow(c): the 12-bit code (1 mV a step, 1.25 V at no current,
\* 2 V an ampere) of the feedback of an amplifier amp whose input is at
\* code; the ripple alternates from one read (n) to the next
LTC1863ReadSlow(amp, code, n) ==
  Clamp(1250
          + RoundDiv(amp.gain * (VoltsOfCode(code) - 25000 + amp.off), 5000)
          + (IF n % 2 = 0 THEN amp.ripple ELSE -amp.ripple),
        0, 4095)

(***************************************************************************)
(* Calibration engine                                                      *)
(***************************************************************************)
\* the code of a conversion (one for a given build)
TheCode(S) == CHOOSE x \in S : TRUE

\* abs(gain + 1.62) > 0.5 for a gain of g mA/V.  At a distance of exactly
\* 0.5 the float arithmetic decides either way
\* mutant: a tolerance of 1.0
GainFails_wide(g) ==
  LET d == IF g + 1620 < 0 THEN -(g + 1620) ELSE g + 1620
  IN IF d > 1000 THEN {TRUE} ELSE {FALSE}

GainFails(g) ==
  LET d == IF g + 1620 < 0 THEN -(g + 1620) ELSE g + 1620
  IN IF d > 500 THEN {TRUE} ELSE IF d = 500 THEN {TRUE, FALSE} ELSE {FALSE}

\* abs(output_offset_I) <= 0.001 for a residual of r * 0.5 mA: the float of
\* 1 mA is above 0.001
\* mutant: no residual is within the tolerance
WithinTol_never(r) == FALSE

WithinTol(r) == r \in -1 .. 1

\* mutant: the zero-offset is left at 10 mV
Exhausted_offset(g) ==
  [ok |-> FALSE, zp |-> 100, code |-> TheCode(CodeOfCurrent(0, g, 100)),
   iters |-> 10]

\* the end of calibrate_channel, the loop having run out: "failed (cal)",
\* the flag false, zeroPoint 0 and the output written anew
Exhausted(g) ==
  [ok |-> FALSE, zp |-> 0, code |-> TheCode(CodeOfCurrent(0, g, 0)), iters |-> 10]

\* mutant: the loop runs for 12 iterations
RECURSIVE ZeroConverge_twelve(_, _, _, _, _)
ZeroConverge_twelve(amp, g, zp, code, i) ==
  IF i = 12
  THEN [ok |-> FALSE, zp |-> 0, code |-> TheCode(CodeOfCurrent(0, g, 0)),
        iters |-> 12]
  ELSE LET r == computeOutI(LTC1863ReadSlow(amp, code, i))
       IN IF WithinTol(r)
          THEN [ok |-> TRUE, zp |-> zp, code |-> code, iters |-> i]
          ELSE ZeroConverge_twelve(amp, g, zp + CDiv(5000 * r, g),
                 TheCode(CodeOfCurrent(0, g, zp + CDiv(5000 * r, g))), i + 1)

\* the loop of calibrate_channel from iteration i on, the output standing at
\* code: whether it returned true, zeroPoint and the output it leaves, and
\* the number of iterations that wrote the output
RECURSIVE ZeroConverge(_, _, _, _, _)
ZeroConverge(amp, g, zp, code, i) ==
  IF i = 10
  THEN Exhausted(g)
  ELSE LET r == computeOutI(LTC1863ReadSlow(amp, code, i))
       IN IF WithinTol(r)
          THEN [ok |-> TRUE, zp |-> zp, code |-> code, iters |-> i]
          ELSE ZeroConverge(amp, g, zp + CDiv(5000 * r, g),
                            TheCode(CodeOfCurrent(0, g, zp + CDiv(5000 * r, g))),
                            i + 1)

\* the codes measure_gain writes: computeDacVal_V(2.0, 0, 0) and
\* computeDacVal_V(2.5, 0, 0), which use zeroPoint[0][0]; calibrate_channel
\* has set zeroPoint[b][c] = 0 before
ProbeCode(volts, c) ==
  TheCode(CodeOfVolts(volts - (IF c = 0 THEN 0 ELSE zeroPoint[0])))

\* measure_gain(0, c), in mA/V
measure_gain(c) ==
  computeOutI(LTC1863ReadSlow(hw[c], ProbeCode(25000, c), 1))
    - computeOutI(LTC1863ReadSlow(hw[c], ProbeCode(20000, c), 0))

\* mutant: the neighbouring element is assigned as well
SetChannel_row(arr, c, v) ==
  [i \in DOMAIN arr |-> IF i = c \/ i = c + 1 THEN v ELSE arr[i]]

\* an assignment to element [b][c] of a per-channel array, and a write of
\* DAC output channelMap[c]
SetChannel(arr, c, v) == [arr EXCEPT ![c] = v]

\* mutant: the gain failure leaves the flag set
calibrate_channel_flagSet(c, log) ==
  LET g == measure_gain(c)
      z == ZeroConverge(hw[c], g, 0, ProbeCode(25000, c), 0)
  IN \E fails \in GainFails(g) :
       /\ gain' = SetChannel(gain, c, g)
       /\ zeroPoint' = SetChannel(zeroPoint, c, IF fails THEN 0 ELSE z.zp)
       /\ calibrationStatus' =
            SetChannel(calibrationStatus, c, IF fails THEN TRUE ELSE z.ok)
       /\ dac' = SetChannel(dac, c, IF fails THEN ProbeCode(25000, c) ELSE z.code)
       /\ calLog' = Append(log, [ch |-> c,
                                 msg |-> IF fails THEN "failed (gain)"
                                         ELSE IF z.ok THEN "" ELSE "failed (cal)",
                                 reads |-> IF fails THEN 0
                                           ELSE IF z.ok THEN z.iters + 1
                                           ELSE z.iters])
       /\ zeroRuns' = 0

\* calibrate_channel(0, c); log is what the command has printed before,
\* with the number of residuals each call read in its loop
calibrate_channel(c, log) ==
  LET g == measure_gain(c)
      z == ZeroConverge(hw[c], g, 0, ProbeCode(25000, c), 0)
  IN \E fails \in GainFails(g) :
       /\ gain' = SetChannel(gain, c, g)
       /\ zeroPoint' = SetChannel(zeroPoint, c, IF fails THEN 0 ELSE z.zp)
       /\ calibrationStatus' =
            SetChannel(calibrationStatus, c, IF fails THEN FALSE ELSE z.ok)
       /\ dac' = SetChannel(dac, c, IF fails THEN ProbeCode(25000, c) ELSE z.code)
       /\ calLog' = Append(log, [ch |-> c,
                                 msg |-> IF fails THEN "failed (gain)"
                                         ELSE IF z.ok THEN "" ELSE "failed (cal)",
                                 reads |-> IF fails THEN 0
                                           ELSE IF z.ok THEN z.iters + 1
                                           ELSE z.iters])
       /\ zeroRuns' = 0

(***************************************************************************)
(* Header text: the C string functions read_ctrl_string uses, over the     *)
(* 100 bytes of ctrlBuffer (positions from 0; -1 is the null pointer)      *)
(***************************************************************************)
BufIdx == 0 .. (ctrlBuffer_length - 1)

\* strchr(buf + from, ch), ch # 0: the first ch before the terminating NUL
RECURSIVE StrChr(_, _, _)
StrChr(buf, from, ch) ==
  IF from \notin BufIdx THEN -1
  ELSE IF buf[from] = ch THEN from
  ELSE IF buf[from] = CH_NUL THEN -1
  ELSE StrChr(buf, from + 1, ch)

\* strchr(p + 1, ch), p a pointer strchr returned
StrAfter(buf, q, ch) == IF q < 0 THEN -1 ELSE StrChr(buf, q + 1, ch)

\* atoi(buf + from) of a text without sign or leading blanks: the value of
\* the decimal digits it starts with, 0 when it starts with none
RECURSIVE AtoiAcc(_, _, _)
AtoiAcc(buf, q, acc) ==
  IF q \in BufIdx /\ buf[q] \in CH_0 .. (CH_0 + 9)
  THEN AtoiAcc(buf, q + 1, 10 * acc + (buf[q] - CH_0))
  ELSE acc

Atoi(buf, from) == AtoiAcc(buf, from, 0)

\* strchr(p + 1, '|')
NextBar(buf, q) == StrAfter(buf, q, CH_BAR)

\* the pointers of read_ctrl_string
PtrC(buf) == StrChr(buf, 0, CH_c)

Bar0(buf) == StrChr(buf, PtrC(buf), CH_BAR)

PtrB(buf) == StrAfter(buf, Bar0(buf), CH_b)

Bar1(buf) == StrChr(buf, PtrB(buf), CH_BAR)

\* l at the start of iteration i of the lengths loop (nextl of iteration i-1)
RECURSIVE PtrL(_, _)
PtrL(buf, i) ==
  IF i = 0
  THEN StrAfter(buf, Bar1(buf), CH_l)
  ELSE NextBar(buf, PtrL(buf, i - 1))

\* r at the start of iteration i of the repeats loop, after n lengths
RECURSIVE PtrR(_, _, _)
PtrR(buf, n, i) ==
  IF i = 0
  THEN StrAfter(buf, PtrL(buf, n), CH_r)
  ELSE NextBar(buf, PtrR(buf, n, i - 1))

\* read_ctrl_string writes channels (k = 0), blocks (k = 1), lengths[0..n-1]
\* and reps[0..n-1] in this order, n being the value written to blocks.
\* FieldFound: the '|' that ends field k was found (bar[0] = 0 succeeds)
FieldFound(buf, n, k) ==
  CASE k = 0 -> Bar0(buf) >= 0
    [] k = 1 -> Bar1(buf) >= 0
    [] k >= 2 /\ k < 2 + n -> PtrL(buf, k - 2 + 1) >= 0
    [] OTHER -> PtrR(buf, n, k - 2 - n + 1) >= 0

\* the value atoi returns for field k
FieldValue(buf, n, k) ==
  CASE k = 0 -> Atoi(buf, PtrC(buf) + 1)
    [] k = 1 -> Atoi(buf, PtrB(buf) + 1)
    [] k >= 2 /\ k < 2 + n -> Atoi(buf, PtrL(buf, k - 2) + 1)
    [] OTHER -> Atoi(buf, PtrR(buf, n, k - 2 - n) + 1)

\* the positions read_ctrl_string overwrites with NUL
BarsFound(buf, n) ==
  ({Bar0(buf), Bar1(buf)}
     \cup {PtrL(buf, i) : i \in 1 .. n}
     \cup {PtrR(buf, n, i) : i \in 1 .. n}) \ {-1}

(***************************************************************************)
(* The header as the host writes it                                        *)
(***************************************************************************)
RECURSIVE Digits(_)
Digits(n) ==
  IF n < 10 THEN << CH_0 + n >> ELSE Digits(n \div 10) \o << CH_0 + (n % 10) >>

Field(tag, n) == << tag >> \o Digits(n) \o << CH_BAR >>

RECURSIVE Fields(_, _, _)
Fields(tag, vals, i) ==
  IF i > Len(vals) THEN << >>
  ELSE Field(tag, vals[i]) \o Fields(tag, vals, i + 1)

RECURSIVE ListTail(_, _)
ListTail(vals, i) ==
  IF i > Len(vals) THEN << >>
  ELSE Digits(vals[i]) \o << CH_BAR >> \o ListTail(vals, i + 1)

\* c<channels>|b<N>|l<len0>|l<len1>|...|r<rep0>|r<rep1>|...|
EncodeTagged(cfg) ==
  Field(CH_c, cfg.ch) \o Field(CH_b, Len(cfg.len))
    \o Fields(CH_l, cfg.len, 1) \o Fields(CH_r, cfg.rep, 1)

\* c<channels>|b<N>|l<len0>|<len1>|...|r<rep0>|<rep1>|...|
EncodeList(cfg) ==
  Field(CH_c, cfg.ch) \o Field(CH_b, Len(cfg.len))
    \o << CH_l >> \o ListTail(cfg.len, 1) \o << CH_r >> \o ListTail(cfg.rep, 1)

\* the header h without its k-th '|'
RECURSIVE DropBar(_, _)
DropBar(h, k) ==
  IF h = << >> THEN << >>
  ELSE IF Head(h) = CH_BAR
       THEN IF k = 1 THEN Tail(h) ELSE << CH_BAR >> \o DropBar(Tail(h), k - 1)
       ELSE << Head(h) >> \o DropBar(Tail(h), k)

\* Serial.readBytesUntil(0, ctrlBuffer, 100): the text overwrites the start
\* of the buffer, the rest keeps what it held
ReadInto(buf, text) ==
  [q \in BufIdx |-> IF q < Len(text) THEN text[q + 1] ELSE buf[q]]

(***************************************************************************)
(* Initial states                                                          *)
(***************************************************************************)
NoPlay == [blk |-> -1, rep |-> -1]

\* amplifiers of the nominal gain -1.62 A/V, no offset, no ripple
NominalHardware == hw = [ch \in ChanIdx |-> NominalAmp]

\* int lengths[maxBlocks] = {2*100, 40*2, ...}; int reps[maxBlocks] = {100000, 1, ...}
DefaultLengths == [i \in BlockIdx |-> IF i = 0 THEN 200 ELSE 80]

DefaultReps == [i \in BlockIdx |-> IF i = 0 THEN 100000 ELSE 1]

\* int lengths[maxBlocks]; int reps[maxBlocks]; int block_transitions
\* [maxBlocks]; int block_base[maxBlocks]; in this order.  An index of
\* maxBlocks or more is past the end of the array: in a build that lays
\* the arrays out side by side in the order declared it is a cell of the
\* next array, in any other it is memory of something else
Layouts == {"adjacent", "apart"}

ArrayNames == {"lengths", "reps", "block_transitions", "block_base"}

\* one block more than the arrays hold
OverBlocks == maxBlocks + 1

SpillCells == ArrayNames \X (maxBlocks .. (OverBlocks - 1))

\* the globals as initialised, and setup() up to its last statement
BootCommon ==
  /\ mode = MODE_ACCEPT
  /\ pc = "setup"
  /\ rx = << >>
  /\ ctrlBuffer = [q \in BufIdx |-> CH_NUL]
  /\ wi = 0
  /\ counter = 0
  /\ block_transitions = [i \in BlockIdx |-> 0]
  /\ block_base = [i \in BlockIdx |-> 0]
  /\ coefStore = DefaultStore
  /\ rdTotal = 0
  /\ rdCount = 0
  /\ gain = [ch \in ChanIdx |-> DefaultGain]
  /\ zeroPoint = [ch \in ChanIdx |-> 0]
  /\ dac = [ch \in ChanIdx |-> -1]
  /\ played = NoPlay
  /\ nsteps = 0
  /\ trigger \in BOOLEAN
  /\ sentHdr = << >>
  /\ loads = 0
  /\ prevStore = DefaultStore
  /\ calibrationStatus = [ch \in ChanIdx |-> FALSE]
  /\ conv \in ConvOutcomes
  /\ calLog = << >>
  /\ zeroRuns = 0
  /\ cmds = 0
  /\ stk = NoPlay
  /\ sentBody = 0
  /\ outHigh = FALSE
  /\ tIrupt = 0
  /\ now = BootMillis
  /\ bncLog = << >>
  /\ spill = [c \in SpillCells |-> 0]
  /\ hiWrite = -1

\* the build as published: its schedule, no sync output
BuildInit ==
  /\ BootCommon
  /\ bncOut = FALSE
  /\ channels = DefaultChannels
  /\ blocks = maxBlocks
  /\ lengths = DefaultLengths
  /\ reps = DefaultReps
  /\ prevSched = SchedRec
  /\ NominalHardware

\* no header of the host has more than maxBlocks blocks: what lies past
\* the arrays is not touched
Init ==
  /\ BuildInit
  /\ layout = "apart"

\* a firmware built with another schedule in lengths[] and reps[] (util.h
\* lists the ones used so far): blocks, and positive lengths and repetitions
ValidTable(blk, hi) ==
  {[i \in BlockIdx |-> IF i < blk THEN f[i] ELSE 0] :
     f \in [0 .. (blk - 1) -> 1 .. hi]}

\* the same schedules in a build with or without the sync output
ScheduleInit ==
  /\ BootCommon
  /\ channels = DefaultChannels
  /\ blocks \in 1 .. MaxBlk
  /\ lengths \in ValidTable(blocks, MaxLen)
  /\ reps \in ValidTable(blocks, MaxRep)
  /\ prevSched = SchedRec
  /\ NominalHardware

PlayInit ==
  /\ ScheduleInit
  /\ bncOut = FALSE
  /\ layout = "apart"

(***************************************************************************)
(* setup(): its last statement                                             *)
(***************************************************************************)
Setup ==
  /\ pc = "setup"
  /\ compute_transitions_base
  /\ pc' = "loop"
  /\ nsteps' = IF counter = 0 THEN nsteps ELSE -1
  /\ UNCHANGED << mode, rx, ctrlBuffer, wi, counter, channels, blocks,
                  lengths, reps, coefStore, rdTotal, rdCount, gain,
                  zeroPoint, dac, played, trigger, sentHdr, loads,
                  prevStore, cmds,
                  calVars, zeroRuns, stk, sentBody,
                  syncVars, memVars >>
  /\ prevSched' = SchedRec'

(***************************************************************************)
(* The trigger interrupt                                                   *)
(***************************************************************************)
StepAllowed == counter < MaxSteps /\ nsteps < MaxSteps

\* mutant: the step marks channel 0 calibrated
Trigger_marksValid ==
  /\ trigger
  /\ pc # "fault"
  /\ StepAllowed
  /\ setDACVal
  /\ calibrationStatus' = SetChannel(calibrationStatus, 0, TRUE)
  /\ UNCHANGED << mode, pc, rx, ctrlBuffer, wi, channels, blocks, lengths,
                  reps, block_transitions, block_base, coefStore, rdTotal,
                  rdCount, gain, zeroPoint, trigger, histVars,
                  hw, conv, calLog, stk, sentBody,
                  memVars >>
  /\ bncSegment

Trigger ==
  /\ trigger
  /\ pc # "fault"
  /\ StepAllowed
  /\ setDACVal
  /\ UNCHANGED << mode, pc, rx, ctrlBuffer, wi, channels, blocks, lengths,
                  reps, block_transitions, block_base, coefStore, rdTotal,
                  rdCount, gain, zeroPoint, trigger, histVars,
                  calVars, stk, sentBody,
                  memVars >>
  /\ bncSegment

(***************************************************************************)
(* The host                                                                *)
(***************************************************************************)
HostSendCmd(b) ==
  /\ mode = MODE_ACCEPT
  /\ pc = "loop"
  /\ rx = << >>
  /\ rx' = << b >>
  /\ b = CH_START => loads < MaxLoads
  /\ UNCHANGED << mode, pc, ctrlBuffer, wi, counter, channels, blocks,
                  lengths, reps, block_transitions, block_base, coefStore,
                  rdTotal, rdCount, gain, zeroPoint, dac, played, nsteps,
                  trigger, histVars,
                  calVars, zeroRuns, stk, sentBody,
                  syncVars, memVars >>

\* a host that sends MaxCmds bytes in all while the device is in MODE_ACCEPT
HostSendByte(b) ==
  /\ mode = MODE_ACCEPT
  /\ pc = "loop"
  /\ rx = << >>
  /\ cmds < MaxCmds
  /\ rx' = << b >>
  /\ cmds' = cmds + 1
  /\ UNCHANGED << mode, pc, ctrlBuffer, wi, counter, channels, blocks,
                  lengths, reps, block_transitions, block_base, coefStore,
                  rdTotal, rdCount, gain, zeroPoint, dac, played, nsteps,
                  trigger, sentHdr, loads, prevSched, prevStore,
                  calVars, zeroRuns, stk, sentBody,
                  syncVars, memVars >>

(***************************************************************************)
(* loop(), MODE_ACCEPT                                                     *)
(***************************************************************************)
AcceptReads(b) ==
  /\ mode = MODE_ACCEPT
  /\ pc = "loop"
  /\ rx # << >>
  /\ Head(rx) = b
  /\ rx' = Tail(rx)

\* case 'T': setDACVal()
AcceptT ==
  /\ AcceptReads(CH_T)
  /\ StepAllowed
  /\ setDACVal
  /\ UNCHANGED << mode, pc, ctrlBuffer, wi, channels, blocks, lengths, reps,
                  block_transitions, block_base, coefStore, rdTotal, rdCount,
                  gain, zeroPoint, trigger, histVars,
                  calVars, stk, sentBody,
                  memVars >>
  /\ bncSegment

\* case 'T' statement by statement, the trigger's interrupt being enabled
\* all the while.  setDACVal up to update_outputs: blkIdx and repIdx are
\* resolved and, at the wrap, counter = 0
ManualResolve ==
  /\ AcceptReads(CH_T)
  /\ StepAllowed
  /\ stk' = [blk |-> ResolvedBlk(counter), rep |-> ResolvedRep(counter)]
  /\ counter' = ResolvedCounter(counter)
  /\ pc' = "step"
  /\ UNCHANGED << mode, ctrlBuffer, wi, schedVars, coefStore, rdTotal,
                  rdCount, gain, zeroPoint, dac, played, nsteps, trigger,
                  histVars, calVars, zeroRuns, sentBody,
                  syncVars, memVars >>

\* update_outputs(blkIdx, repIdx)
ManualOutputs ==
  /\ pc = "step"
  /\ update_outputs(stk.blk, stk.rep)
  /\ played' = stk
  /\ pc' = "incr"
  /\ zeroRuns' = 0
  /\ UNCHANGED << mode, rx, ctrlBuffer, wi, counter, schedVars, coefStore,
                  rdTotal, rdCount, gain, zeroPoint, nsteps, trigger,
                  histVars, calVars, stk, sentBody,
                  syncVars, memVars >>

\* counter++; break
ManualIncr ==
  /\ pc = "incr"
  /\ counter' = counter + 1
  /\ nsteps' = IF nsteps = -1 THEN -1 ELSE nsteps + 1
  /\ stk' = NoPlay
  /\ pc' = "loop"
  /\ UNCHANGED << mode, rx, ctrlBuffer, wi, schedVars, coefStore, rdTotal,
                  rdCount, gain, zeroPoint, dac, played, trigger, histVars,
                  calVars, zeroRuns, sentBody,
                  memVars >>
  /\ bncSegment

\* case 1: counter = 0; mode = MODE_HEADER; and, there being no break,
\* the statements of case 'Z'
AcceptStart ==
  /\ AcceptReads(CH_START)
  /\ counter' = 0
  /\ mode' = MODE_HEADER
  /\ pc' = "zero"
  /\ nsteps' = 0
  /\ loads' = loads + 1
  /\ prevSched' = SchedRec
  /\ prevStore' = coefStore
  /\ sentBody' = 0
  /\ UNCHANGED << ctrlBuffer, wi, schedVars, coefStore, rdTotal, rdCount,
                  gain, zeroPoint, dac, played, trigger, sentHdr, cmds,
                  calVars, zeroRuns, stk,
                  syncVars, memVars >>

\* mutant: case 'Z' sets mode = MODE_HEADER as well
AcceptZ_toHeader ==
  /\ AcceptReads(CH_Z)
  /\ pc' = "zero"
  /\ mode' = MODE_HEADER
  /\ UNCHANGED << ctrlBuffer, wi, counter, schedVars, coefStore,
                  rdTotal, rdCount, gain, zeroPoint, dac, played, nsteps,
                  trigger, histVars,
                  calVars, zeroRuns, stk, sentBody,
                  syncVars, memVars >>

\* case 'Z'
AcceptZ ==
  /\ AcceptReads(CH_Z)
  /\ pc' = "zero"
  /\ UNCHANGED << mode, ctrlBuffer, wi, counter, schedVars, coefStore,
                  rdTotal, rdCount, gain, zeroPoint, dac, played, nsteps,
                  trigger, histVars,
                  calVars, zeroRuns, stk, sentBody,
                  syncVars, memVars >>

\* zero_all(); break
ZeroAll ==
  /\ pc = "zero"
  /\ zero_all
  /\ pc' = "loop"
  /\ zeroRuns' = IF zeroRuns < 2 THEN zeroRuns + 1 ELSE 2
  /\ UNCHANGED << mode, rx, ctrlBuffer, wi, counter, schedVars, coefStore,
                  rdTotal, rdCount, gain, zeroPoint, played, nsteps, trigger,
                  histVars,
                  calVars, stk, sentBody,
                  syncVars, memVars >>

(***************************************************************************)
(* loop(), MODE_ACCEPT: the calibration commands                           *)
(***************************************************************************)
\* case 'C': for (int i = 0; i < NUM_C; i++) calibrate_channel(0, i)
AcceptC ==
  /\ AcceptReads(CH_C)
  /\ pc' = "cal"
  /\ calLog' = << >>
  /\ UNCHANGED << mode, ctrlBuffer, wi, counter, schedVars, coefStore,
                  rdTotal, rdCount, gain, zeroPoint, dac, played, nsteps,
                  trigger, histVars, calibrationStatus, hw, conv, zeroRuns,
                  stk, sentBody,
                  syncVars, memVars >>

\* the loop variable i of case 'C': the calibrations made so far
\* mutant: the loop counts down
NextChannel_down == NUM_C - 1 - Len(calLog)

NextChannel == Len(calLog)

\* one iteration of the loop of case 'C'
CalStep ==
  /\ pc = "cal"
  /\ Len(calLog) < NUM_C
  /\ calibrate_channel(NextChannel, calLog)
  /\ UNCHANGED << mode, pc, rx, ctrlBuffer, wi, counter, schedVars,
                  coefStore, rdTotal, rdCount, played, nsteps, trigger,
                  histVars, hw, conv, stk, sentBody,
                  syncVars, memVars >>

\* the loop of case 'C' is over: break
CalEnd ==
  /\ pc = "cal"
  /\ Len(calLog) = NUM_C
  /\ pc' = "loop"
  /\ UNCHANGED << mode, rx, ctrlBuffer, wi, counter, schedVars, coefStore,
                  rdTotal, rdCount, gain, zeroPoint, dac, played, nsteps,
                  trigger, histVars, calVars, zeroRuns, stk, sentBody,
                  syncVars, memVars >>

\* case 'D': for (int i = 0; i < 1; i++) calibrate_channel(0, i)
AcceptD ==
  /\ AcceptReads(CH_D)
  /\ calibrate_channel(0, << >>)
  /\ UNCHANGED << mode, pc, ctrlBuffer, wi, counter, schedVars, coefStore,
                  rdTotal, rdCount, played, nsteps, trigger, histVars, hw,
                  conv, stk, sentBody,
                  syncVars, memVars >>

(***************************************************************************)
(* loop(), MODE_ACCEPT: printing and the manual settings                   *)
(***************************************************************************)
\* case 'I': print_all(); case 'A': print_all_boards(): the feedback is
\* read and printed
AcceptPrint ==
  /\ \E b \in {CH_I, CH_A} : AcceptReads(b)
  /\ UNCHANGED << mode, pc, ctrlBuffer, wi, counter, schedVars, coefStore,
                  rdTotal, rdCount, gain, zeroPoint, dac, played, nsteps,
                  trigger, histVars, calVars, zeroRuns, stk, sentBody,
                  syncVars, memVars >>

\* case 'S': LTC2656Write(..., channelMap[0], computeDacVal_I(0.5, 0, 0))
AcceptS ==
  /\ AcceptReads(CH_S)
  /\ dac' \in {SetChannel(dac, 0, code) : code \in computeDacVal_I(500, 0)}
  /\ zeroRuns' = 0
  /\ UNCHANGED << mode, pc, ctrlBuffer, wi, counter, schedVars, coefStore,
                  rdTotal, rdCount, gain, zeroPoint, played, nsteps,
                  trigger, histVars, calVars, stk, sentBody,
                  syncVars, memVars >>

\* the channel and the current the line after 'X' names; when the line has
\* not arrived or is not of the form <board> <channel> <value>, boardStr,
\* channelStr and floatStr hold what the stack held
XChannels == {0, NUM_C - 1}

XCurrents == {0, 500}

\* case 'X' on the outputs d, the value of the line being one of the
\* currents C: all the bytes received are read and one output is written
ManualSetOf(d, C) ==
  UNION {{SetChannel(d, ch, code) :
            code \in UNION {computeDacVal_I(cur, ch) : cur \in C}} :
         ch \in XChannels}

ManualSet(d) == ManualSetOf(d, XCurrents)

AcceptXOf(C) ==
  /\ mode = MODE_ACCEPT
  /\ pc = "loop"
  /\ rx # << >>
  /\ Head(rx) = CH_X
  /\ rx' = << >>
  /\ dac' \in ManualSetOf(dac, C)
  /\ zeroRuns' = 0
  /\ UNCHANGED << mode, pc, ctrlBuffer, wi, counter, schedVars, coefStore,
                  rdTotal, rdCount, gain, zeroPoint, played, nsteps,
                  trigger, histVars, calVars, stk, sentBody,
                  syncVars, memVars >>

AcceptX == AcceptXOf(XCurrents)

\* case 'M': counter = 0; update_outputs(0, 0); counter += 1; and, there
\* being no break, the statements of case 'X'
AcceptM ==
  /\ mode = MODE_ACCEPT
  /\ pc = "loop"
  /\ rx # << >>
  /\ Head(rx) = CH_M
  /\ rx' = << >>
  /\ dac' \in UNION {ManualSet(d) :
                      d \in Resolutions([i \in ChanIdx |-> OutputCodes(i, 0, 0)])}
  /\ counter' = 1
  /\ played' = [blk |-> 0, rep |-> 0]
  /\ nsteps' = 1
  /\ zeroRuns' = 0
  /\ UNCHANGED << mode, pc, ctrlBuffer, wi, schedVars, coefStore, rdTotal,
                  rdCount, gain, zeroPoint, trigger, histVars, calVars, stk,
                  sentBody,
                  syncVars, memVars >>

\* the characters the switch of MODE_ACCEPT has a case for
CaseBytes == {CH_START, CH_Z, CH_C, CH_D, CH_T, CH_I, CH_A, CH_S, CH_M, CH_X}

\* any other byte: no case of the switch
AcceptOther ==
  /\ \E b \in (0 .. 255) \ CaseBytes : AcceptReads(b)
  /\ UNCHANGED << mode, pc, ctrlBuffer, wi, counter, schedVars, coefStore,
                  rdTotal, rdCount, gain, zeroPoint, dac, played, nsteps,
                  trigger, histVars, calVars, zeroRuns, stk, sentBody,
                  syncVars, memVars >>

(***************************************************************************)
(* loop(), MODE_HEADER: readBytesUntil and read_ctrl_string                *)
(***************************************************************************)
\* configurations the host encodes
HostConfigs ==
  { [ch |-> 2, len |-> << 2 >>, rep |-> << 3 >>],
    [ch |-> 2, len |-> << 1, 2 >>, rep |-> << 2, 1 >>],
    [ch |-> 2, len |-> << 0 >>, rep |-> << 1 >>],
    [ch |-> 2, len |-> << 1 >>, rep |-> << 0 >>] }

WellFormedHeaders ==
  {EncodeTagged(c) : c \in HostConfigs} \cup {EncodeList(c) : c \in HostConfigs}

\* a header with one '|' missing
MalformedHeaders ==
  {DropBar(EncodeTagged([ch |-> 2, len |-> << 2 >>, rep |-> << 3 >>]), k) :
     k \in 1 .. 4}

\* the host sends one of the headers H and the terminating NUL
HostSendHeaderOf(H) ==
  /\ mode = MODE_HEADER
  /\ pc = "loop"
  /\ rx = << >>
  /\ \E h \in H :
       /\ rx' = h \o << CH_NUL >>
       /\ sentHdr' = h
  /\ UNCHANGED << mode, pc, ctrlBuffer, wi, counter, schedVars, coefStore,
                  rdTotal, rdCount, gain, zeroPoint, dac, played, nsteps,
                  trigger, loads, prevSched, prevStore, cmds,
                  calVars, zeroRuns, stk, sentBody,
                  syncVars, memVars >>

\* every header the host of Spec may send
HostHeaders == WellFormedHeaders \cup MalformedHeaders

HostSendHeader == HostSendHeaderOf(HostHeaders)

\* the bytes of q before its first NUL, and those after it
RECURSIVE UntilNul(_)
UntilNul(q) ==
  IF q = << >> \/ Head(q) = CH_NUL THEN << >>
  ELSE << Head(q) >> \o UntilNul(Tail(q))

AfterNul(q) == SubSeq(q, Len(UntilNul(q)) + 2, Len(q))

\* Serial.readBytesUntil(0, ctrlBuffer, ctrlBuffer_length)
LoopHeader ==
  /\ mode = MODE_HEADER
  /\ pc = "loop"
  /\ rx # << >>
  /\ ctrlBuffer' = ReadInto(ctrlBuffer, UntilNul(rx))
  /\ rx' = AfterNul(rx)
  /\ pc' = "ctrl"
  /\ wi' = 0
  /\ UNCHANGED << mode, counter, schedVars, coefStore, rdTotal, rdCount,
                  gain, zeroPoint, dac, played, nsteps, trigger, histVars,
                  calVars, zeroRuns, stk, sentBody,
                  syncVars, memVars >>

Max0(n) == IF n < 0 THEN 0 ELSE n

Max1(n) == IF n < 1 THEN 1 ELSE n

\* writes of read_ctrl_string to the parsed fields, and all its writes
NFields(s) == 2 + 2 * Max0(s.blocks)

TotalWrites(s) == NFields(s) + 2 * Max1(s.blocks)

NextArray(a) ==
  CASE a = "lengths" -> "reps"
    [] a = "reps" -> "block_transitions"
    [] a = "block_transitions" -> "block_base"
    [] OTHER -> "none"

\* a[i] = v
RECURSIVE WriteCell(_, _, _, _)
WriteCell(s, a, i, v) ==
  IF i < maxBlocks THEN [s EXCEPT ![a][i] = v]
  ELSE IF layout = "adjacent" /\ NextArray(a) # "none"
       THEN WriteCell(s, NextArray(a), i - maxBlocks, v)
       ELSE [s EXCEPT !.spill[<< a, i >>] = v]

\* the value of a[i]
RECURSIVE ReadCell(_, _, _)
ReadCell(s, a, i) ==
  IF i < maxBlocks THEN s[a][i]
  ELSE IF layout = "adjacent" /\ NextArray(a) # "none"
       THEN ReadCell(s, NextArray(a), i - maxBlocks)
       ELSE s.spill[<< a, i >>]

\* the schedule and the memory past its arrays
MemRec ==
  [channels |-> channels, blocks |-> blocks, lengths |-> lengths,
   reps |-> reps, block_transitions |-> block_transitions,
   block_base |-> block_base, spill |-> spill]

\* mutant: the fields are stored and the derived arrays are left as they were
CtrlStep_stale(s, buf, k, w) ==
  LET n == Max0(s.blocks)
      v == IF FieldFound(buf, n, k) THEN FieldValue(buf, n, k) ELSE w
  IN CASE k = 0 -> [s EXCEPT !.channels = v]
       [] k = 1 -> [s EXCEPT !.blocks = v]
       [] k >= 2 /\ k < 2 + n -> [s EXCEPT !.lengths[k - 2] = v]
       [] k >= 2 + n /\ k < 2 + 2 * n -> [s EXCEPT !.reps[k - 2 - n] = v]
       [] OTHER -> s

\* the schedule after write k of read_ctrl_string; w is the value a field
\* takes when its text was not found
CtrlStep(s, buf, k, w) ==
  LET n == Max0(s.blocks)
      v == IF FieldFound(buf, n, k) THEN FieldValue(buf, n, k) ELSE w
      t == k - NFields(s)
      m == Max1(s.blocks)
  IN CASE k = 0 -> [s EXCEPT !.channels = v]
       [] k = 1 -> [s EXCEPT !.blocks = v]
       [] k >= 2 /\ k < 2 + n -> WriteCell(s, "lengths", k - 2, v)
       [] k >= 2 + n /\ k < 2 + 2 * n -> WriteCell(s, "reps", k - 2 - n, v)
       [] k >= 2 + 2 * n /\ t = 0 ->
            [s EXCEPT !.block_transitions[0] = s.reps[0] * s.lengths[0]]
       [] k >= 2 + 2 * n /\ t >= 1 /\ t < m ->
            WriteCell(s, "block_transitions", t,
                      ReadCell(s, "block_transitions", t - 1)
                        + ReadCell(s, "reps", t) * ReadCell(s, "lengths", t))
       [] k >= 2 + 2 * n /\ t = m ->
            [s EXCEPT !.block_base[0] = s.lengths[0]]
       [] OTHER ->
            WriteCell(s, "block_base", t - m,
                      ReadCell(s, "block_base", t - m - 1)
                        + ReadCell(s, "lengths", t - m))

\* the array index write k of read_ctrl_string stores to; -1 for channels
\* and blocks
CtrlIndex(s, k) ==
  LET n == Max0(s.blocks)
      t == k - NFields(s)
      m == Max1(s.blocks)
  IN CASE k < 2 -> -1
       [] k < 2 + n -> k - 2
       [] k < 2 + 2 * n -> k - 2 - n
       [] t < m -> t
       [] OTHER -> t - m

\* read_ctrl_string from its write k on
RECURSIVE CtrlRun(_, _, _)
CtrlRun(s, buf, k) ==
  IF k >= 2 /\ k >= TotalWrites(s) THEN s
  ELSE CtrlRun(CtrlStep(s, buf, k, 0), buf, k + 1)

\* the next write is a parsed field whose terminating '|' was not found:
\* bar[0] = 0 goes through a null pointer
CtrlLost ==
  /\ wi < 2 \/ wi < NFields(SchedRec)
  /\ ~FieldFound(ctrlBuffer, Max0(blocks), wi)

CtrlApply(w) ==
  LET s == CtrlStep(MemRec, ctrlBuffer, wi, w)
      done == wi + 1 = TotalWrites(s)
  IN /\ channels' = s.channels
     /\ blocks' = s.blocks
     /\ lengths' = s.lengths
     /\ reps' = s.reps
     /\ block_transitions' = s.block_transitions
     /\ block_base' = s.block_base
     /\ spill' = s.spill
     /\ hiWrite' = IF CtrlIndex(SchedRec, wi) > hiWrite
                   THEN CtrlIndex(SchedRec, wi) ELSE hiWrite
     /\ UNCHANGED layout
     /\ wi' = IF done THEN 0 ELSE wi + 1
     /\ pc' = IF done THEN "loop" ELSE "ctrl"
     /\ mode' = IF done THEN MODE_BODY ELSE mode
     /\ ctrlBuffer' =
          IF done
          THEN LET bars == BarsFound(ctrlBuffer, Max0(s.blocks))
               IN [q \in BufIdx |->
                     IF q \in bars THEN CH_NUL ELSE ctrlBuffer[q]]
          ELSE ctrlBuffer
     /\ nsteps' = IF counter = 0 THEN nsteps ELSE -1
     /\ UNCHANGED << rx, counter, coefStore, rdTotal, rdCount, gain,
                     zeroPoint, dac, played, trigger, histVars,
                  calVars, zeroRuns, stk, sentBody,
                  syncVars >>

\* one write of read_ctrl_string; after the last one, mode = MODE_BODY
CtrlWrite ==
  /\ pc = "ctrl"
  /\ ~CtrlLost
  /\ CtrlApply(0)

\* values a read through a null or wild pointer may yield
WildInts == {0, 1}

\* the store through the null pointer is dropped and the field is read
\* from wherever the pointer leads
CtrlWild ==
  /\ pc = "ctrl"
  /\ CtrlLost
  /\ \E w \in WildInts : CtrlApply(w)

\* the store through the null pointer raises a hard fault: the device halts
CtrlFault ==
  /\ pc = "ctrl"
  /\ CtrlLost
  /\ pc' = "fault"
  /\ UNCHANGED << mode, rx, ctrlBuffer, wi, counter, schedVars, coefStore,
                  rdTotal, rdCount, gain, zeroPoint, dac, played, nsteps,
                  trigger, histVars,
                  calVars, zeroRuns, stk, sentBody,
                  syncVars, memVars >>

(***************************************************************************)
(* loop(), MODE_BODY: read_float_dump                                      *)
(***************************************************************************)
RECURSIVE SumLengths(_)
SumLengths(n) ==
  IF n <= 0 THEN 0 ELSE SumLengths(n - 1) + channels * lengths[n - 1]

totalLength == SumLengths(blocks)

\* the table the host sends: 1.0, -1.0, 0.5, -0.5, 1.0, ...
HostFloat(j) == << 1000, -1000, 500, -500 >>[(j % 4) + 1]

HostByte(q) == FloatBytes(HostFloat(q \div 4))[(q % 4) + 1]

\* the host sends the next byte of the body
HostSendBody ==
  /\ mode = MODE_BODY
  /\ pc \in {"loop", "dump"}
  /\ rx = << >>
  /\ sentBody < 4 * totalLength
  /\ rx' = << HostByte(sentBody) >>
  /\ sentBody' = sentBody + 1
  /\ UNCHANGED << mode, pc, ctrlBuffer, wi, counter, schedVars, coefStore,
                  rdTotal, rdCount, gain, zeroPoint, dac, played, nsteps,
                  trigger, histVars, calVars, zeroRuns, stk,
                  syncVars, memVars >>

\* command characters a host sends while the device is in MODE_BODY
BodyCmds == {CH_Z, CH_T}

\* the host sends a command character, of its budget, before the body is
\* complete
HostSendBodyCmd ==
  /\ mode = MODE_BODY
  /\ pc \in {"loop", "dump"}
  /\ rx = << >>
  /\ cmds < MaxCmds
  /\ \E b \in BodyCmds : rx' = << b >>
  /\ cmds' = cmds + 1
  /\ UNCHANGED << mode, pc, ctrlBuffer, wi, counter, schedVars, coefStore,
                  rdTotal, rdCount, gain, zeroPoint, dac, played, nsteps,
                  trigger, sentHdr, loads, prevSched, prevStore,
                  calVars, zeroRuns, stk, sentBody,
                  syncVars, memVars >>

\* if (Serial.available()) ... Serial.readBytes((char*)coefStore, 4 * totalLength)
BodyStart ==
  /\ mode = MODE_BODY
  /\ pc = "loop"
  /\ rx # << >>
  /\ pc' = "dump"
  /\ rdTotal' = 4 * totalLength
  /\ rdCount' = 0
  /\ UNCHANGED << mode, rx, ctrlBuffer, wi, counter, schedVars, coefStore,
                  gain, zeroPoint, dac, played, nsteps, trigger, histVars,
                  calVars, zeroRuns, stk, sentBody,
                  syncVars, memVars >>

\* readBytes stores one byte
BodyRead ==
  /\ pc = "dump"
  /\ rdCount < rdTotal
  /\ rx # << >>
  /\ coefStore' = IF rdCount \in StoreBytes
                  THEN [coefStore EXCEPT ![rdCount] = Head(rx)]
                  ELSE coefStore
  /\ rdCount' = rdCount + 1
  /\ rx' = Tail(rx)
  /\ UNCHANGED << mode, pc, ctrlBuffer, wi, counter, schedVars, rdTotal,
                  gain, zeroPoint, dac, played, nsteps, trigger, histVars,
                  calVars, zeroRuns, stk, sentBody,
                  syncVars, memVars >>

\* readBytes has stored all the bytes asked for: return 1, mode = MODE_ACCEPT
BodyDone ==
  /\ pc = "dump"
  /\ rdCount = rdTotal
  /\ pc' = "loop"
  /\ mode' = MODE_ACCEPT
  /\ UNCHANGED << rx, ctrlBuffer, wi, counter, schedVars, coefStore, rdTotal,
                  rdCount, gain, zeroPoint, dac, played, nsteps, trigger,
                  histVars,
                  calVars, zeroRuns, stk, sentBody,
                  syncVars, memVars >>

\* readBytes gives up after the serial timeout with no byte: read_float_dump
\* still returns 1, mode = MODE_ACCEPT
BodyTimeout ==
  /\ pc = "dump"
  /\ rdCount < rdTotal
  /\ rx = << >>
  /\ pc' = "loop"
  /\ mode' = MODE_ACCEPT
  /\ UNCHANGED << rx, ctrlBuffer, wi, counter, schedVars, coefStore, rdTotal,
                  rdCount, gain, zeroPoint, dac, played, nsteps, trigger,
                  histVars,
                  calVars, zeroRuns, stk, sentBody,
                  syncVars, memVars >>

\* the trigger's handler divides by lengths[blkIdx] = 0 and the division traps
TriggerFault ==
  /\ trigger
  /\ pc # "fault"
  /\ computeBlockIdx(counter) # -1
  /\ lengths[computeBlockIdx(counter)] = 0
  /\ pc' = "fault"
  /\ UNCHANGED << mode, rx, ctrlBuffer, wi, counter, schedVars, coefStore,
                  rdTotal, rdCount, gain, zeroPoint, dac, played, nsteps,
                  trigger, histVars,
                  calVars, zeroRuns, stk, sentBody,
                  syncVars, memVars >>

(***************************************************************************)
(* The device and its host                                                 *)
(***************************************************************************)
HostCommands == {CH_START, CH_Z, CH_T}

DeviceNext ==
  \/ Setup
  \/ AcceptStart
  \/ AcceptZ
  \/ AcceptT
  \/ ZeroAll
  \/ LoopHeader
  \/ CtrlWrite
  \/ CtrlWild
  \/ CtrlFault
  \/ BodyStart
  \/ BodyRead
  \/ BodyDone
  \/ BodyTimeout

HostNext ==
  \/ \E b \in HostCommands : HostSendCmd(b)
  \/ HostSendHeader
  \/ HostSendBody

Next ==
  \/ DeviceNext
  \/ HostNext
  \/ Trigger
  \/ TriggerFault

Spec == Init /\ [][Next]_vars

\* the steps loop() takes in MODE_BODY
BodyLoop == BodyStart \/ BodyRead \/ BodyDone \/ BodyTimeout

\* loop() is called again and again, and readBytes returns when the bytes are
\* in or the timeout is over: a step of the body loop that stays possible is
\* taken.  Neither the host nor the trigger is bound to do anything
FairSpec == Spec /\ WF_vars(BodyLoop)

(***************************************************************************)
(* The protocol: every command byte, one header of each kind, the body     *)
(***************************************************************************)
ProtoInit ==
  /\ Init
  /\ ~trigger

ProtoBytes == CaseBytes \cup {CH_0}

\* a header of one block of one row for two channels, and the same with
\* its first '|' missing
ProtoHeader == EncodeTagged([ch |-> 2, len |-> << 1 >>, rep |-> << 1 >>])

ProtoHeaders == {ProtoHeader, DropBar(ProtoHeader, 1)}

ProtoNext ==
  \/ Setup
  \/ \E b \in ProtoBytes : HostSendByte(b)
  \/ AcceptStart
  \/ AcceptZ
  \/ ZeroAll
  \/ AcceptC
  \/ CalStep
  \/ CalEnd
  \/ AcceptD
  \/ AcceptT
  \/ AcceptPrint
  \/ AcceptS
  \/ AcceptM
  \/ AcceptX
  \/ AcceptOther
  \/ HostSendHeaderOf(ProtoHeaders)
  \/ LoopHeader
  \/ CtrlWrite
  \/ CtrlWild
  \/ CtrlFault
  \/ HostSendBody
  \/ BodyStart
  \/ BodyRead
  \/ BodyDone
  \/ BodyTimeout

ProtoSpec == ProtoInit /\ [][ProtoNext]_vars

\* the same with a host that also sends command characters during the body
BodyCmdNext ==
  \/ ProtoNext
  \/ HostSendBodyCmd

BodyCmdSpec == ProtoInit /\ [][BodyCmdNext]_vars

(***************************************************************************)
(* Configuration loads of schedules of several blocks                      *)
(***************************************************************************)
\* one channel; two blocks (1 row twice, 2 rows once), in the form
\* read_ctrl_string reads whole: c1|b2|l1|2|r2|1|
TwoBlockConfig == [ch |-> 1, len |-> << 1, 2 >>, rep |-> << 2, 1 >>]

TwoBlockHeader == EncodeList(TwoBlockConfig)

\* that header, the same with every field tagged, one block of 2 rows 3
\* times, and the first with the '|' of its block count missing
CompileHeaders ==
  {TwoBlockHeader,
   EncodeTagged(TwoBlockConfig),
   EncodeTagged([ch |-> 1, len |-> << 2 >>, rep |-> << 3 >>]),
   DropBar(TwoBlockHeader, 2)}

CompileNext ==
  \/ Setup
  \/ HostSendCmd(CH_START)
  \/ AcceptStart
  \/ ZeroAll
  \/ HostSendHeaderOf(CompileHeaders)
  \/ LoopHeader
  \/ CtrlWrite
  \/ CtrlWild
  \/ CtrlFault
  \/ HostSendBody
  \/ BodyStart
  \/ BodyRead
  \/ BodyDone
  \/ BodyTimeout

CompileSpec == ProtoInit /\ [][CompileNext]_vars

(***************************************************************************)
(* A header of more blocks than the arrays hold                            *)
(***************************************************************************)
\* one channel, OverBlocks blocks of one row played once:
\* c1|b10|l1|1|...|1|r1|1|...|1|
OversizeHeader ==
  EncodeList([ch |-> 1,
              len |-> [i \in 1 .. OverBlocks |-> 1],
              rep |-> [i \in 1 .. OverBlocks |-> 1]])

\* the headers on the link: the oversize one and one the arrays hold
OversizeHeaders == {OversizeHeader, TwoBlockHeader}

OversizeInit ==
  /\ BuildInit
  /\ ~trigger
  /\ layout \in Layouts

OversizeNext ==
  \/ Setup
  \/ HostSendCmd(CH_START)
  \/ AcceptStart
  \/ ZeroAll
  \/ HostSendHeaderOf(OversizeHeaders)
  \/ LoopHeader
  \/ CtrlWrite

OversizeSpec == OversizeInit /\ [][OversizeNext]_vars

(***************************************************************************)
(* A table larger than coefStore                                           *)
(***************************************************************************)
\* 32 channels, one block of 9 rows played once: 288 floats
WideHeader == EncodeList([ch |-> 32, len |-> << 9 >>, rep |-> << 1 >>])

CapacityNext ==
  \/ Setup
  \/ HostSendCmd(CH_START)
  \/ HostSendCmd(CH_T)
  \/ AcceptStart
  \/ ZeroAll
  \/ AcceptT
  \/ HostSendHeaderOf({WideHeader})
  \/ LoopHeader
  \/ CtrlWrite
  \/ HostSendBody
  \/ BodyStart
  \/ BodyRead
  \/ BodyDone
  \/ BodyTimeout

CapacitySpec == ProtoInit /\ [][CapacityNext]_vars

(***************************************************************************)
(* The conversion on the currents a host can type after 'X'                *)
(***************************************************************************)
\* currents in mA on both sides of the span of the output stage:
\* 5 A / 1.6 A/V is more than the 2.5 V on either side of mid-scale
WideCurrents == {-5000, -500, 0, 500, 5000}

ConvNext ==
  \/ Setup
  \/ HostSendCmd(CH_X)
  \/ AcceptXOf(WideCurrents)

ConvSpec == ProtoInit /\ [][ConvNext]_vars

(***************************************************************************)
(* Calibration of a bench of amplifiers                                    *)
(***************************************************************************)
\* channels whose amplifier may be any of Amplifiers; the others are nominal
OddChannels == {0, 1}

CalInit ==
  /\ BootCommon
  /\ bncOut = FALSE
  /\ layout = "apart"
  /\ channels = DefaultChannels
  /\ blocks = maxBlocks
  /\ lengths = DefaultLengths
  /\ reps = DefaultReps
  /\ prevSched = SchedRec
  /\ hw \in {[ch \in ChanIdx |-> IF ch \in OddChannels THEN f[ch] ELSE NominalAmp] :
               f \in [OddChannels -> Amplifiers]}

CalCommands == {CH_C, CH_D, CH_Z}

CalNext ==
  \/ Setup
  \/ \E b \in CalCommands : HostSendCmd(b)
  \/ AcceptC
  \/ CalStep
  \/ CalEnd
  \/ AcceptD
  \/ AcceptZ
  \/ ZeroAll

CalSpec == CalInit /\ [][CalNext]_vars

(***************************************************************************)
(* Playback under a compiled-in schedule                                   *)
(***************************************************************************)
PlayNext ==
  \/ Setup
  \/ Trigger
  \/ HostSendCmd(CH_T)
  \/ AcceptT

PlaySpec == PlayInit /\ [][PlayNext]_vars

(***************************************************************************)
(* Playback in a build that drives the sync output                         *)
(***************************************************************************)
SyncInit ==
  /\ ScheduleInit
  /\ bncOut = TRUE
  /\ layout = "apart"

\* a millisecond passes
Tick ==
  /\ now < LastMillis
  /\ now' = now + 1
  /\ UNCHANGED << mode, pc, rx, ctrlBuffer, wi, counter, schedVars, coefStore,
                  rdTotal, rdCount, gain, zeroPoint, dac, played, nsteps,
                  trigger, histVars, calVars, zeroRuns, stk, sentBody,
                  bncOut, outHigh, tIrupt, bncLog, memVars >>

SyncNext ==
  \/ Setup
  \/ Trigger
  \/ HostSendCmd(CH_T)
  \/ AcceptT
  \/ Tick

SyncSpec == SyncInit /\ [][SyncNext]_vars

\* the clock runs and loop() runs; the host and the trigger need not act
SyncFairSpec ==
  SyncSpec /\ WF_vars(Tick) /\ WF_vars(Setup) /\ WF_vars(AcceptT)

(***************************************************************************)
(* Playback with the trigger attached and the manual step interruptible    *)
(***************************************************************************)
StepInit ==
  /\ PlayInit
  /\ trigger

StepNext ==
  \/ Setup
  \/ Trigger
  \/ HostSendCmd(CH_T)
  \/ ManualResolve
  \/ ManualOutputs
  \/ ManualIncr

StepSpec == StepInit /\ [][StepNext]_vars

(***************************************************************************)
(* Properties of the schedule and of playback                              *)
(***************************************************************************)
ValidConfig ==
  /\ blocks \in 1 .. maxBlocks
  /\ \A i \in 0 .. (blocks - 1) : lengths[i] >= 1 /\ reps[i] >= 1

Compiled == pc # "setup"

Period == block_transitions[blocks - 1]

\* the pair the compiled schedule assigns to a counter value
PairAt(c) ==
  [blk |-> computeBlockIdx(c), rep |-> computeRepIdx(c, computeBlockIdx(c))]

\* blocks whose interval of thresholds holds c
BlocksHolding(c) ==
  {b \in 0 .. (blocks - 1) :
     /\ c < block_transitions[b]
     /\ b >= 1 => block_transitions[b - 1] <= c}

\* C1: for a valid configuration, once compiled, the cumulative thresholds
\* and the cumulative row offsets are strictly increasing in the block
\* index, and every counter value in [0, period) resolves to the one block
\* whose threshold interval holds it and to a row of that block.
C1_ScheduleResolves ==
  (Compiled /\ ValidConfig) =>
    /\ \A i \in 1 .. (blocks - 1) :
         /\ block_transitions[i - 1] < block_transitions[i]
         /\ block_base[i - 1] < block_base[i]
    /\ block_transitions[0] > 0 /\ block_base[0] > 0
    /\ \A c \in 0 .. (Period - 1) :
         /\ computeBlockIdx(c) \in 0 .. (blocks - 1)
         /\ BlocksHolding(c) = {computeBlockIdx(c)}
         /\ computeRepIdx(c, computeBlockIdx(c))
              \in 0 .. (lengths[computeBlockIdx(c)] - 1)

\* a playback step has resolved a counter into the second block of a
\* compiled two-block schedule
C1_Witness ==
  /\ Compiled /\ ValidConfig /\ blocks = 2 /\ pc = "loop"
  /\ played.blk = 1 /\ played.rep = lengths[1] - 1

\* C2: under a valid compiled schedule the n-th playback step from counter
\* 0 (n = nsteps - 1) plays the pair the schedule assigns to n mod period,
\* so the step after exactly period steps plays (0, 0) again, and leaves
\* the counter at (n mod period) + 1.
C2_Wrap ==
  (Compiled /\ ValidConfig /\ nsteps >= 1) =>
    /\ played = PairAt((nsteps - 1) % Period)
    /\ counter = ((nsteps - 1) % Period) + 1
    /\ nsteps - 1 = Period => played = [blk |-> 0, rep |-> 0]

\* the step after the wrap step has been played, in a schedule of several rows
C2_Witness ==
  /\ Compiled /\ ValidConfig /\ blocks = 2 /\ lengths[0] = 2
  /\ nsteps = Period + 2
  /\ played = [blk |-> 0, rep |-> 1]

\* the first counter value of block b, from the lengths and repetitions
RECURSIVE BlockStart(_)
BlockStart(b) ==
  IF b = 0 THEN 0 ELSE BlockStart(b - 1) + lengths[b - 1] * reps[b - 1]

\* C3: block b of length L and repetition count R is played for exactly
\* the L*R steps that follow the blocks before it, and the k-th of these
\* steps plays row k mod L: the rows cycle 0, 1, ..., L-1, 0, ... in order.
\* For one block (L=2, R=3) the first five steps play rows 0,1,0,1,0 and
\* the seventh step is the wrap step.
C3_RowCycle ==
  (Compiled /\ ValidConfig /\ nsteps >= 1) =>
    LET c == (nsteps - 1) % BlockStart(blocks)
        b == played.blk
    IN /\ b \in 0 .. (blocks - 1)
       /\ BlockStart(b) <= c
       /\ c < BlockStart(b) + lengths[b] * reps[b]
       /\ played.rep = (c - BlockStart(b)) % lengths[b]
       /\ (blocks = 1 /\ lengths[0] = 2 /\ reps[0] = 3) =>
            /\ nsteps <= 6 => played.rep = (nsteps - 1) % 2
            /\ nsteps = 7 => played.rep = 0 /\ counter = 1

\* one block (L=2, R=3): the step after the sixth has wrapped
C3_Witness ==
  /\ Compiled /\ blocks = 1 /\ lengths[0] = 2 /\ reps[0] = 3
  /\ nsteps = 7 /\ played = [blk |-> 0, rep |-> 0] /\ counter = 1

(***************************************************************************)
(* Properties of the configuration protocol                                *)
(***************************************************************************)
\* the schedule holds the configuration cfg
Decoded(cfg) ==
  /\ channels = cfg.ch
  /\ blocks = Len(cfg.len)
  /\ \A i \in 1 .. Len(cfg.len) :
       lengths[i - 1] = cfg.len[i] /\ reps[i - 1] = cfg.rep[i]

\* read_ctrl_string has returned and the body has not begun
HeaderDecoded == mode = MODE_BODY /\ pc = "loop"

\* C4: decoding the header c<channels>|b<N>|l<len0>|...|r<rep0>|...| of a
\* configuration sets channels, blocks, lengths[0..N-1] and reps[0..N-1] to
\* the encoded values.
C4_HeaderRoundTrip ==
  \A cfg \in HostConfigs :
    (sentHdr = EncodeTagged(cfg) /\ HeaderDecoded) => Decoded(cfg)

\* the device is done with the header it received
HeaderHandled == loads >= 1 /\ rx = << >> /\ pc \in {"loop", "fault"}

\* C5: once a header with a '|' missing has been handled, the schedule and
\* the coefficient table are those before the attempt and the mode is Accept.
C5_MalformedRejected ==
  (sentHdr \in MalformedHeaders /\ HeaderHandled) =>
    /\ mode = MODE_ACCEPT
    /\ SchedRec = prevSched
    /\ coefStore = prevStore

\* headers whose parameters are invalid: a block of no rows or no repetitions
InvalidConfigs ==
  {c \in HostConfigs :
     \E i \in 1 .. Len(c.len) : c.len[i] = 0 \/ c.rep[i] = 0}

InvalidHeaders ==
  {EncodeTagged(c) : c \in InvalidConfigs}
    \cup {EncodeList(c) : c \in InvalidConfigs}

\* headers of valid parameters in the framing read_ctrl_string decodes as sent
SoundHeaders == {EncodeList(c) : c \in HostConfigs \ InvalidConfigs}

\* C6: when a load (of a header decoded as sent) has returned the device to
\* Accept, the loader has consumed exactly
\* 4 * channels * (lengths[0] + ... + lengths[blocks-1]) bytes.
C6_ExactBody ==
  (loads >= 1 /\ mode = MODE_ACCEPT /\ sentHdr \in SoundHeaders)
    => rdCount = 4 * totalLength

\* the store once the whole table of the active schedule is loaded
LoadedStore ==
  [q \in StoreBytes |->
     IF q < 4 * totalLength THEN HostByte(q) ELSE prevStore[q]]

StoreWhole == coefStore \in {prevStore, LoadedStore}

\* the host has sent nothing or a header decoded as sent
SoundHost == sentHdr = << >> \/ sentHdr \in SoundHeaders

\* C7: at every playback step (trigger or manual single-step) the store is
\* entirely the previously loaded table or entirely the newly loaded one.
C7_NoTornStore == [][((Trigger \/ AcceptT) /\ SoundHost) => StoreWhole]_vars

\* the schedule is the one before the attempt, or the one read_ctrl_string
\* leaves when it returns
SchedWhole ==
  pc = "ctrl" =>
    SchedRec \in {prevSched, CtrlRun(SchedRec, ctrlBuffer, wi)}

C9_BodyEnds ==
  (mode = MODE_BODY /\ sentHdr \in SoundHeaders) ~> (mode = MODE_ACCEPT)

\* C10: after an attempt with invalid header parameters, or one whose body
\* did not arrive in time, the device is back in Accept with the schedule as
\* it was before the start byte.
C10_AbortKeepsSchedule ==
  (/\ loads >= 1
   /\ mode = MODE_ACCEPT
   /\ \/ sentHdr \in InvalidHeaders
      \/ sentHdr \in SoundHeaders /\ rdCount < rdTotal)
    => SchedRec = prevSched

\* 65535.0 * (current / g + 2.5 - zp) / 5.0 before its conversion to
\* uint16_t
RawCode(current, g, zp) ==
  CDiv(13107 * (CDiv(10000 * current, g) + 25000 - zp), 10000)

\* C22: the code written for a current is the value of the expression
\* clamped to 0 .. 65535, never that value reduced modulo 2^16: every
\* output the 'X' command writes is the clamp of the conversion of one of
\* the currents the line can name.
C22_ConversionClamps ==
  [][AcceptXOf(WideCurrents) =>
       \E ch \in XChannels, cur \in WideCurrents :
         /\ gain[ch] # 0
         /\ dac' = SetChannel(dac, ch,
                      Clamp(RawCode(cur, gain[ch], zeroPoint[ch]), 0, 65535))]_vars

\* C23: in a build that drives the sync output, every playback step (of
\* the trigger or of 'T') writes HIGH to bncPin, whether or not the pulse
\* of the step before has been lowered.
C23_StepAssertsSync ==
  [][(bncOut /\ (Trigger \/ AcceptT)) =>
       (bncLog' # << >> /\ Head(bncLog') = "HIGH")]_vars

\* C24: once a step has raised bncPin, and the clock has a millisecond
\* left to run, the pin is lowered again, whatever the host and the
\* trigger do afterwards and even if they do nothing.
C24_SyncDeasserted ==
  (bncOut /\ outHigh /\ now < LastMillis) ~> ~outHigh

\* C25: counter is changed by playback steps only: a step of the model
\* that changes it is a 'T' step (the trigger is not attached here), which
\* adds one or wraps to 1; the start byte, 'M', the header, the body,
\* the calibrations and zero_all leave it as it is.
C25_CounterOnlyBySteps ==
  [][counter' # counter =>
       (AcceptT /\ (counter' = counter + 1 \/ counter' = 1))]_vars

\* the threshold before block b: block_transitions[b - 1], and 0 for b = 0
ThresholdBefore(b) == IF b = 0 THEN 0 ELSE block_transitions[b - 1]

\* C26: once compiled, every counter value c in [0, period) resolves to the
\* block b with threshold[b-1] <= c < threshold[b] (threshold[-1] = 0) and
\* to the row (c - threshold[b-1]) mod length[b]; and the pair a step has
\* played is the one resolved this way from the counter the step found.
C26_BlockRowFormula ==
  Compiled =>
    /\ \A c \in 0 .. (Period - 1) :
         LET b == computeBlockIdx(c)
         IN /\ b \in 0 .. (blocks - 1)
            /\ ThresholdBefore(b) <= c
            /\ c < block_transitions[b]
            /\ computeRepIdx(c, b) = (c - ThresholdBefore(b)) % lengths[b]
    /\ nsteps >= 1 =>
         /\ played.blk \in 0 .. (blocks - 1)
         /\ ThresholdBefore(played.blk) <= counter - 1
         /\ counter - 1 < block_transitions[played.blk]
         /\ played.rep =
              (counter - 1 - ThresholdBefore(played.blk)) % lengths[played.blk]

\* a step has played the second row of the second block, found at the
\* counter two past the first threshold
C26_Witness ==
  /\ Compiled /\ blocks = 2 /\ lengths[1] = 2 /\ reps[0] = 2
  /\ counter - 1 = block_transitions[0] + 1
  /\ played = [blk |-> 1, rep |-> 1]

\* the table row at which the rows of block b begin: lengths[0] + ... +
\* lengths[b - 1]
RECURSIVE RowStart(_)
RowStart(b) == IF b = 0 THEN 0 ELSE RowStart(b - 1) + lengths[b - 1]

\* the current the table holds for channel k in its row, the rows being of
\* one float for each of the channels
StoredCurrent(row, k) ==
  LET idx == channels * row + k
  IN FloatOf(coefStore[4 * idx], coefStore[4 * idx + 1],
             coefStore[4 * idx + 2], coefStore[4 * idx + 3])

C29_DerivedArraysCurrent ==
  (Compiled /\ mode \in {MODE_ACCEPT, MODE_BODY}) =>
    \A i \in 0 .. (blocks - 1) :
      /\ block_transitions[i] = BlockStart(i + 1)
      /\ block_base[i] = RowStart(i + 1)

\* the two-block header has been parsed over the schedule of the build and
\* the device is in Body with the arrays of the new lengths
C29_Witness ==
  /\ mode = MODE_BODY /\ pc = "loop" /\ loads = 1
  /\ sentHdr = TwoBlockHeader
  /\ blocks = 2 /\ lengths[0] = 1 /\ lengths[1] = 2
  /\ block_transitions[1] = 4 /\ block_base[1] = 3

\* C30: a header of more than maxBlocks blocks is rejected:
\* read_ctrl_string stores to no index of maxBlocks or more of lengths,
\* reps, block_transitions or block_base, and once it has returned on such
\* a header the schedule is the one held before the start byte.
C30_OversizeRejected ==
  /\ hiWrite < maxBlocks
  /\ (/\ loads >= 1
      /\ pc = "loop"
      /\ mode \in {MODE_BODY, MODE_ACCEPT}
      /\ sentHdr = OversizeHeader) => SchedRec = prevSched

\* no block of the compiled schedule is of zero width
NoZeroWidth ==
  /\ block_transitions[0] > 0
  /\ block_base[0] > 0
  /\ \A i \in 1 .. (blocks - 1) :
       /\ block_transitions[i - 1] < block_transitions[i]
       /\ block_base[i - 1] < block_base[i]

\* C21: once read_ctrl_string has returned on a header that declares a
\* block of length 0 or of 0 repetitions, the schedule is the one held
\* before the start byte, and it has no zero-width segment: no two equal
\* consecutive cumulative thresholds or row offsets.
C21_ZeroWidthRejected ==
  (/\ loads >= 1
   /\ pc = "loop"
   /\ mode \in {MODE_BODY, MODE_ACCEPT}
   /\ sentHdr \in InvalidHeaders) =>
     /\ SchedRec = prevSched
     /\ NoZeroWidth

\* the outputs after the step that plays the pair p
OutputsOf(p) == Resolutions([i \in ChanIdx |-> OutputCodes(i, p.blk, p.rep)])

\* C28: the 'M' command leaves the counter at 1 and every configured
\* channel at the code of row 0 of block 0: it writes each channel once,
\* with that row, and writes no channel besides.
C28_ResetPlaysFirstRow ==
  [][AcceptM =>
       /\ counter' = 1
       /\ dac' \in OutputsOf([blk |-> 0, rep |-> 0])]_vars

C11_ModeCycle ==
  /\ mode = MODE_ACCEPT
  /\ [][/\ mode' # mode =>
            \/ /\ mode = MODE_ACCEPT
               /\ mode' = MODE_HEADER
               /\ rx # << >>
               /\ Head(rx) = CH_START
            \/ mode = MODE_HEADER /\ mode' = MODE_BODY
            \/ mode = MODE_BODY /\ mode' = MODE_ACCEPT
        /\ (mode = MODE_ACCEPT /\ pc = "loop" /\ rx # << >> /\ rx' # rx
              /\ Head(rx) # CH_START) => mode' = MODE_ACCEPT]_vars

\* the device is back in Accept after a load, the whole body read, and has
\* handled a command byte after the load
C11_Witness ==
  /\ mode = MODE_ACCEPT
  /\ loads = 1
  /\ rdTotal > 0
  /\ rdCount = rdTotal
  /\ cmds >= 2
  /\ rx = << >>
  /\ pc = "loop"

\* C12: while the device is in Body, the step that takes a command
\* character off the link, the header having been well formed, runs no
\* command (the counter, the outputs and the calibration data stay as they
\* are) and does not store the character in the coefficient table.
C12_BodyDefersCommands ==
  [][(/\ mode = MODE_BODY
      /\ sentHdr = ProtoHeader
      /\ rx # << >>
      /\ Head(rx) \in CaseBytes
      /\ rx' # rx) =>
       UNCHANGED << coefStore, counter, dac, gain, zeroPoint,
                    calibrationStatus >>]_vars

(***************************************************************************)
(* Zero-all and the calibration engine                                     *)
(***************************************************************************)
\* the step is a call of calibrate_channel for channel c
CalibrationOf(c) ==
  /\ CalStep \/ AcceptD
  /\ calLog'[Len(calLog')].ch = c

\* what the call of this step printed
Printed == calLog'[Len(calLog')].msg

Dist(a, b) == IF a < b THEN b - a ELSE a - b

\* C14: zero-all is idempotent: after zero_all every channel's output code
\* is the code of zero current under the channel's gain and zero-offset as
\* they are then, and a zero_all that follows a zero_all, nothing else
\* having written an output or the calibration data in between, leaves
\* every output code as it was.
C14_ZeroAllIdempotent ==
  [][ZeroAll =>
       /\ \A c \in ChanIdx : dac'[c] \in CodeOfCurrent(0, gain'[c], zeroPoint'[c])
       /\ zeroRuns >= 1 => dac' = dac]_vars

\* zero_all has run twice on end over a channel calibrated to an offset
C14_Witness ==
  /\ zeroRuns = 2
  /\ pc = "loop"
  /\ \E c \in ChanIdx : calibrationStatus[c] /\ zeroPoint[c] # 0

\* C15: calibrate_channel stores the difference of the two feedback
\* readings over the 0.5 V step as the gain and fails in the gain phase
\* when it is further than 0.5 from -1.62 and only then (at a distance of
\* 0.5 the float rounding of the build decides); a channel whose amplifier
\* has gain -1.62 passes the gain phase and one with flat feedback fails.
C15_GainVerdict ==
  [][\A c \in ChanIdx : CalibrationOf(c) =>
       /\ gain'[c] = measure_gain(c)
       /\ Dist(gain'[c], NominalGain) > 500 => Printed = "failed (gain)"
       /\ Dist(gain'[c], NominalGain) < 500 => Printed # "failed (gain)"
       /\ hw[c].gain = NominalGain => Printed # "failed (gain)"
       /\ hw[c].gain = 0 => Printed = "failed (gain)"]_vars

\* one command has calibrated a flat channel and a channel of gain -1.62
C15_Witness ==
  /\ Len(calLog) >= 2
  /\ hw[0].gain = 0 /\ calLog[1].msg = "failed (gain)"
  /\ hw[1].gain = NominalGain /\ calLog[2].msg # "failed (gain)"

\* C16: for a linear amplifier (no ripple) whose gain is within 0.5 of
\* -1.62, whatever its offset among the amplifiers of the bench,
\* calibrate_channel returns true before its 10 iterations are used up,
\* marks the channel valid and leaves the output where the feedback reads
\* a residual within the tolerance.
C16_Converges ==
  [][\A c \in ChanIdx :
       (/\ CalibrationOf(c)
        /\ hw[c].ripple = 0
        /\ Dist(hw[c].gain, NominalGain) < 500) =>
         /\ Printed = ""
         /\ calibrationStatus'[c]
         /\ WithinTol(computeOutI(LTC1863ReadSlow(hw[c], dac'[c], 0)))]_vars

\* a channel with an offset has been calibrated to a non-zero zero-offset
C16_Witness ==
  \E i \in 1 .. Len(calLog) :
    /\ calLog[i].msg = ""
    /\ hw[calLog[i].ch].off # 0
    /\ zeroPoint[calLog[i].ch] # 0
    /\ calibrationStatus[calLog[i].ch]

\* C17: when the loop of calibrate_channel has used its 10 iterations
\* without a residual within the tolerance ("failed (cal)"), the channel's
\* zero-offset is 0, the channel is flagged invalid and its output is the
\* zero-current code computed with the measured gain and zero-offset 0.
C17_ExhaustedResets ==
  [][\A c \in ChanIdx :
       (CalibrationOf(c) /\ Printed = "failed (cal)") =>
         /\ zeroPoint'[c] = 0
         /\ ~calibrationStatus'[c]
         /\ dac'[c] \in CodeOfCurrent(0, gain'[c], 0)
         /\ ZeroConverge(hw[c], gain'[c], 0, ProbeCode(25000, c), 0).iters = 10]_vars

\* a calibration has run out of iterations
C17_Witness ==
  \E i \in 1 .. Len(calLog) :
    /\ calLog[i].msg = "failed (cal)"
    /\ zeroPoint[calLog[i].ch] = 0
    /\ ~calibrationStatus[calLog[i].ch]

\* C18: when calibrate_channel fails in the gain phase the channel is
\* marked invalid and its output is left at the channel's zero-current
\* code, the code computeDacVal_I(0, b, c) yields for it, whatever the
\* channel and whatever the calibration of the other channels.
C18_GainFailureZeroes ==
  [][\A c \in ChanIdx :
       (CalibrationOf(c) /\ Printed = "failed (gain)") =>
         /\ ~calibrationStatus'[c]
         /\ dac'[c] \in CodeOfCurrent(0, gain'[c], zeroPoint'[c])]_vars

\* C19: calibrate_channel changes the gain, zero-offset, validity flag and
\* output code of the channel it is called for and of no other channel,
\* whether it returns true or false.
C19_FrameOfCalibration ==
  [][\A c \in ChanIdx : CalibrationOf(c) =>
       \A d \in ChanIdx \ {c} :
         /\ gain'[d] = gain[d]
         /\ zeroPoint'[d] = zeroPoint[d]
         /\ calibrationStatus'[d] = calibrationStatus[d]
         /\ dac'[d] = dac[d]]_vars

\* channel 0 alone has been calibrated again ('D') and channel 1 still
\* holds the calibration an earlier 'C' gave it
C19_Witness ==
  /\ Len(calLog) = 1
  /\ pc = "loop"
  /\ calibrationStatus[1]
  /\ zeroPoint[1] # 0

C31_FailureResetsDefaults ==
  [][\A c \in ChanIdx :
       (CalibrationOf(c) /\ Printed # "") =>
         /\ gain'[c] = DefaultGain
         /\ gain'[c] # 0
         /\ zeroPoint'[c] = 0]_vars

\* the entry the call of this step added to the log
LastCall == calLog'[Len(calLog')]

\* C32: every call of calibrate_channel ends in success or in one of the
\* two failures, with the flag set accordingly; it reads at most 10
\* residuals, none at all after a failed gain probe (the zero-offset is
\* then the 0 it was given at entry), and all 10 when it fails to converge.
C32_CalibrationTerminates ==
  [][\A c \in ChanIdx : CalibrationOf(c) =>
       /\ Printed \in {"", "failed (gain)", "failed (cal)"}
       /\ calibrationStatus'[c] = (Printed = "")
       /\ LastCall.reads \in 0 .. 10
       /\ Printed = "failed (gain)" => (LastCall.reads = 0 /\ zeroPoint'[c] = 0)
       /\ Printed = "failed (cal)" => LastCall.reads = 10
       /\ Printed = "" => LastCall.reads >= 1]_vars

\* one command has made a call that failed in the gain probe, a call that
\* ran out of iterations and a call that converged
C32_Witness ==
  /\ pc = "loop"
  /\ \E i, j, k \in 1 .. Len(calLog) :
       /\ calLog[i].msg = "failed (gain)" /\ calLog[i].reads = 0
       /\ calLog[j].msg = "failed (cal)" /\ calLog[j].reads = 10
       /\ calLog[k].msg = "" /\ calLog[k].reads >= 1

\* C33: every index a playback step reads of coefStore lies in the table
\* of the active configuration, channels * (lengths[0] + ... +
\* lengths[blocks-1]) floats, and in the row the step resolved: for every
\* configured channel k the index channels * (rowOffset(b) + r) + k is
\* below the size of the table and its row is rowOffset(b) + r.
C33_ReadsInsideTable ==
  [][AcceptT =>
       \A k \in ChanIdx :
         LET idx == coefIdx(k, played'.blk, played'.rep)
         IN /\ channels >= 1
            /\ idx < totalLength
            /\ idx \div channels = RowStart(played'.blk) + played'.rep]_vars

\* C34: the 256 floats of coefStore are never exceeded: every byte the
\* body load stores lies in the store, and every index a playback step
\* reads is below 256.
C34_StoreCapacity ==
  [][/\ BodyRead => rdCount < 4 * StoreFloats
     /\ AcceptT =>
          \A k \in ChanIdx :
            coefIdx(k, played'.blk, played'.rep) < StoreFloats]_vars


GainInTolerance(g) == Dist(g, NominalGain) <= 500

\* C37: in every reachable state a channel whose calibrationStatus is true
\* has a gain within 0.5 of -1.62; the flag becomes true only in a call of
\* calibrate_channel for that channel which printed no failure, the gain of
\* a channel changes only in a call of calibrate_channel for it, and a call
\* that leaves the gain out of tolerance leaves the flag false.
C37_ValidFlagImpliesGain ==
  /\ [](\A c \in ChanIdx : calibrationStatus[c] => GainInTolerance(gain[c]))
  /\ [][\A c \in ChanIdx :
          /\ (~calibrationStatus[c] /\ calibrationStatus'[c])
               => (CalibrationOf(c) /\ Printed = "")
          /\ gain'[c] # gain[c] => CalibrationOf(c)
          /\ (CalibrationOf(c) /\ ~GainInTolerance(gain'[c]))
               => ~calibrationStatus'[c]]_vars

\* calibrate_all has run: one channel is valid with a measured gain that is
\* not the default, and another failed its gain probe and is flagged invalid
C37_Witness ==
  /\ pc = "loop"
  /\ \E c, d \in ChanIdx :
       /\ calibrationStatus[c] /\ gain[c] # DefaultGain
       /\ ~calibrationStatus[d] /\ ~GainInTolerance(gain[d])


\* C38: a playback step, from the trigger or from the command 'T', leaves
\* unchanged the coefficient store, channels, blocks, lengths, reps,
\* block_transitions and block_base, every channel's gain, zero-offset and
\* calibration flag, and the protocol mode (with the header buffer and the
\* body read position): of the program's variables only the counter, the
\* output codes and the sync-pulse state may differ after it.
C38_StepFrame ==
  [][(Trigger \/ AcceptT) =>
       /\ UNCHANGED << coefStore, channels, blocks, lengths, reps,
                       block_transitions, block_base >>
       /\ UNCHANGED << gain, zeroPoint, calibrationStatus, mode >>
       /\ UNCHANGED << ctrlBuffer, wi, rdTotal, rdCount >>]_vars

\* steps from the trigger have been played that moved the counter into the
\* second block and wrote the outputs
C38_Witness ==
  /\ pc = "loop" /\ trigger /\ nsteps >= 2 /\ counter >= 2
  /\ played.blk = 1
  /\ \E c \in ChanIdx : dac[c] # TheCode(CodeOfCurrent(0, gain[c], zeroPoint[c]))

====
